---- MODULE Spec2Model ----
(***************************************************************************)
(* A model of populate_nfl_data.py: the connection provider, the schema    *)
(* initializer, the team seeder, the game fetcher/upserter and the driver. *)
(*                                                                         *)
(* The database is the state: the set of existing tables, the rows of      *)
(* nfl_teams and the rows of nfl_games (bags of rows: a heap table has no  *)
(* order).  The surrogate id and created_at columns are left out: no       *)
(* operation of the script reads them.  The HTTP response, the outcome of  *)
(* each database operation and the passing of time are inputs.             *)
(***************************************************************************)
EXTENDS Integers, Sequences, FiniteSets, Bags, TLC

VARIABLES
    database_url,  \* os.getenv('DATABASE_URL'): None or Some(text)
    tables,        \* names of the tables that exist
    nfl_teams,     \* bag of team rows
    nfl_games,     \* bag of game rows
    clock,         \* CURRENT_TIMESTAMP of the database server
    pc,            \* position of main(), or "api" when the functions are called directly
    week,          \* main's loop variable
    trace,         \* the calls main has made, in order
    request,       \* the arguments and inputs of the single call of CallSpec
    fetched,       \* history: per game_id, what its first and its latest upsert carried
    last           \* what the most recent call did

vars == <<database_url, tables, nfl_teams, nfl_games, clock, pc, week, trace,
          request, fetched, last>>

\* ---------------------------------------------------------------- bounds
MaxEvents == 2     \* events in the response of the single call of CallSpec
MaxBatch == 1      \* events in a response where calls follow one another
MaxClock == 1      \* ticks of the database clock

\* ------------------------------------------------------- program constants
current_week == 11
SeasonOfMain == 2025
HTTP_OK == 200

\* ------------------------------------------------------------ Python values
None == <<>>
Some(x) == <<x>>
IsNone(o) == o = <<>>
Get(o, default) == IF o = <<>> THEN default ELSE o[1]

\* str.split('T')[0] of an ISO timestamp, a sequence of characters
RECURSIVE BeforeT(_)
BeforeT(s) ==
    IF s = <<>> \/ Head(s) = "T" THEN <<>>
    ELSE <<Head(s)>> \o BeforeT(Tail(s))

Digits == <<"0", "1", "2", "3", "4", "5", "6", "7", "8", "9">>
IsDigit(c) == \E i \in 1..10 : Digits[i] = c
DigitValue(c) == (CHOOSE i \in 1..10 : Digits[i] = c) - 1

\* int(text) for a text of decimal digits; anything else raises ValueError
RECURSIVE DecimalValue(_, _)
DecimalValue(s, acc) ==
    IF s = <<>> THEN acc
    ELSE DecimalValue(Tail(s), 10 * acc + DigitValue(Head(s)))

IntParses(s) == s # <<>> /\ \A i \in 1..Len(s) : IsDigit(s[i])

\* int(competitor.get('score', 0)): [ok, value] or [ok = FALSE, err]
IntOfScore(score) ==
    IF IsNone(score) THEN [ok |-> TRUE, value |-> 0]
    ELSE IF IntParses(score[1]) THEN [ok |-> TRUE, value |-> DecimalValue(score[1], 0)]
    ELSE [ok |-> FALSE, err |-> "ValueError(int)"]

\* ------------------------------------------------- parsing of the response
\* A loop that sets the away side only from a competitor flagged 'away'
RECURSIVE SidesByFlag(_, _)
SidesByFlag(competitors, acc) ==
    IF competitors = <<>> THEN acc
    ELSE LET c == Head(competitors)
             n == IntOfScore(c.score)
         IN  IF ~n.ok THEN [ok |-> FALSE, err |-> n.err]
             ELSE IF c.homeAway = Some("home")
                  THEN SidesByFlag(Tail(competitors),
                                   [acc EXCEPT !.home_team = c.team,
                                               !.home_score = Some(n.value)])
                  ELSE IF c.homeAway = Some("away")
                  THEN SidesByFlag(Tail(competitors),
                                   [acc EXCEPT !.away_team = c.team,
                                               !.away_score = Some(n.value)])
                  ELSE SidesByFlag(Tail(competitors), acc)

\* The loop over competition['competitors'] (lines 188-199): a competitor
\* flagged 'home' sets the home side, ANY other competitor sets the away
\* side; a later competitor overwrites an earlier one of the same side.
RECURSIVE Sides(_, _)
Sides(competitors, acc) ==
    IF competitors = <<>> THEN acc
    ELSE LET c == Head(competitors)
             n == IntOfScore(c.score)
         IN  IF ~n.ok THEN [ok |-> FALSE, err |-> n.err]
             ELSE IF c.homeAway = Some("home")
                  THEN Sides(Tail(competitors),
                             [acc EXCEPT !.home_team = c.team,
                                         !.home_score = Some(n.value)])
                  ELSE Sides(Tail(competitors),
                             [acc EXCEPT !.away_team = c.team,
                                         !.away_score = Some(n.value)])

NoSides ==
    [ok |-> TRUE, home_team |-> None, away_team |-> None,
     home_score |-> None, away_score |-> None]

\* week if week else event.get('week', {}).get('number', 1)
Truthy(w) == ~IsNone(w) /\ w[1] # 0
WeekOf(w, event) == IF Truthy(w) THEN w[1] ELSE Get(event.weeknum, 1)

\* The tuple appended for one event with a competition (lines 178-213)
GameOf(event, season, w) ==
    LET competition == event.competitions[1]
        s == Sides(competition.competitors, NoSides)
    IN  IF ~s.ok THEN s
        ELSE [ok |-> TRUE,
              game |-> [game_id    |-> event.id,
                        season     |-> season,
                        week       |-> WeekOf(w, event),
                        game_date  |-> BeforeT(Get(event.date, <<>>)),
                        home_team  |-> s.home_team,
                        away_team  |-> s.away_team,
                        home_score |-> s.home_score,
                        away_score |-> s.away_score,
                        status     |-> Get(competition.status, "scheduled")]]

\* for event in data.get('events', []) (lines 177-213): the list `games`,
\* or the exception that ended the loop
RECURSIVE ParseEvents(_, _, _, _)
ParseEvents(events, season, w, games) ==
    IF events = <<>> THEN [ok |-> TRUE, games |-> games]
    ELSE LET event == Head(events) IN
         IF event.kind # "dict" THEN [ok |-> FALSE, err |-> "AttributeError"]
         ELSE IF event.competitions = <<>>
              THEN ParseEvents(Tail(events), season, w, games)
              ELSE LET g == GameOf(event, season, w) IN
                   IF ~g.ok THEN g
                   ELSE ParseEvents(Tail(events), season, w, Append(games, g.game))


\* ---------------------------------------------------------------- database
\* The four tables of create_tables (lines 30-93)
SchemaTables == {"nfl_teams", "nfl_games", "nfl_players", "nfl_player_stats"}

Rows(table) == BagToSet(table)
RowCount(table) == BagCardinality(table)

\* The embedded list of populate_teams (lines 105-138)
teams ==
    << <<"Arizona Cardinals", "ARI", "NFC", "West">>,
       <<"Atlanta Falcons", "ATL", "NFC", "South">>,
       <<"Baltimore Ravens", "BAL", "AFC", "North">>,
       <<"Buffalo Bills", "BUF", "AFC", "East">>,
       <<"Carolina Panthers", "CAR", "NFC", "South">>,
       <<"Chicago Bears", "CHI", "NFC", "North">>,
       <<"Cincinnati Bengals", "CIN", "AFC", "North">>,
       <<"Cleveland Browns", "CLE", "AFC", "North">>,
       <<"Dallas Cowboys", "DAL", "NFC", "East">>,
       <<"Denver Broncos", "DEN", "AFC", "West">>,
       <<"Detroit Lions", "DET", "NFC", "North">>,
       <<"Green Bay Packers", "GB", "NFC", "North">>,
       <<"Houston Texans", "HOU", "AFC", "South">>,
       <<"Indianapolis Colts", "IND", "AFC", "South">>,
       <<"Jacksonville Jaguars", "JAX", "AFC", "South">>,
       <<"Kansas City Chiefs", "KC", "AFC", "West">>,
       <<"Las Vegas Raiders", "LV", "AFC", "West">>,
       <<"Los Angeles Chargers", "LAC", "AFC", "West">>,
       <<"Los Angeles Rams", "LAR", "NFC", "West">>,
       <<"Miami Dolphins", "MIA", "AFC", "East">>,
       <<"Minnesota Vikings", "MIN", "NFC", "North">>,
       <<"New England Patriots", "NE", "AFC", "East">>,
       <<"New Orleans Saints", "NO", "NFC", "South">>,
       <<"New York Giants", "NYG", "NFC", "East">>,
       <<"New York Jets", "NYJ", "AFC", "East">>,
       <<"Philadelphia Eagles", "PHI", "NFC", "East">>,
       <<"Pittsburgh Steelers", "PIT", "AFC", "North">>,
       <<"San Francisco 49ers", "SF", "NFC", "West">>,
       <<"Seattle Seahawks", "SEA", "NFC", "West">>,
       <<"Tampa Bay Buccaneers", "TB", "NFC", "South">>,
       <<"Tennessee Titans", "TEN", "AFC", "South">>,
       <<"Washington Commanders", "WAS", "NFC", "East">> >>

TeamRow(t) ==
    [team_name |-> t[1], team_abbr |-> t[2], conference |-> t[3], division |-> t[4]]

\* An insert without the conflict clause, into a table without the constraint
RECURSIVE InsertTeamsAlways(_, _)
InsertTeamsAlways(table, values) ==
    IF values = <<>> THEN table
    ELSE InsertTeamsAlways(table (+) SetToBag({TeamRow(Head(values))}), Tail(values))

\* INSERT INTO nfl_teams ... ON CONFLICT (team_abbr) DO NOTHING (lines 143-149):
\* a tuple whose abbreviation is already in the table is skipped
RECURSIVE InsertTeams(_, _)
InsertTeams(table, values) ==
    IF values = <<>> THEN table
    ELSE LET row == TeamRow(Head(values)) IN
         IF \E r \in Rows(table) : r.team_abbr = row.team_abbr
         THEN InsertTeams(table, Tail(values))
         ELSE InsertTeams(table (+) SetToBag({row}), Tail(values))

\* The row a game tuple inserts; updated_at DEFAULT CURRENT_TIMESTAMP (line 55)
GameRow(g, now) ==
    [game_id |-> g.game_id, season |-> g.season, week |-> g.week,
     game_date |-> g.game_date, home_team |-> g.home_team,
     away_team |-> g.away_team, home_score |-> g.home_score,
     away_score |-> g.away_score, status |-> g.status, updated_at |-> now]

\* A conflict clause that sets every column of the row
ConflictUpdateAll(row, g, now) == GameRow(g, now)

\* ON CONFLICT (game_id) DO UPDATE SET ... (lines 222-226)
ConflictUpdate(row, g, now) ==
    [row EXCEPT !.home_score = g.home_score,
                !.away_score = g.away_score,
                !.status = g.status,
                !.updated_at = now]

\* game_id VARCHAR(50) UNIQUE (line 45): NULLs never conflict
Conflicts(row, g) == ~IsNone(g.game_id) /\ row.game_id = g.game_id

\* One tuple of the INSERT ... ON CONFLICT statement
UpsertOne(table, g, now) ==
    IF \E r \in Rows(table) : Conflicts(r, g)
    THEN LET r == CHOOSE x \in Rows(table) : Conflicts(x, g)
         IN  (table (-) SetToBag({r})) (+) SetToBag({ConflictUpdate(r, g, now)})
    ELSE table (+) SetToBag({GameRow(g, now)})

RECURSIVE UpsertAll(_, _, _)
UpsertAll(table, games, now) ==
    IF games = <<>> THEN table
    ELSE UpsertAll(UpsertOne(table, Head(games), now), Tail(games), now)

\* What makes the server reject the statement: '' is no DATE (line 48 with
\* line 179), and ON CONFLICT DO UPDATE cannot affect a row a second time
\* within one statement (two tuples with the same non-null game_id)
StatementError(games) ==
    IF \E i \in 1..Len(games) : games[i].game_date = <<>>
        THEN "InvalidDatetimeFormat"
    ELSE IF \E i, j \in 1..Len(games) :
                i < j /\ ~IsNone(games[i].game_id) /\ games[i].game_id = games[j].game_id
        THEN "CardinalityViolation"
    ELSE "none"


\* ------------------------------------------------------------ the functions
\* What a call did: the record kept in `last`
Call(op, status_code, parsed, error, raised, opened, closed) ==
    [op |-> op, status_code |-> status_code, parsed |-> parsed, error |-> error,
     raised |-> raised, opened |-> opened, closed |-> closed]

NoCall == Call("none", 0, FALSE, "none", FALSE, 0, 0)

\* Outcomes of the database operations of one call: none fails, or
\* psycopg2.connect, a cursor execute, or the commit raises
Faults == {"none", "connect", "execute", "commit"}

\* get_db_connection (lines 9-19)
get_db_connection(url, fault) ==
    IF IsNone(url) \/ url = Some("") THEN [ok |-> FALSE, err |-> "ValueError(DATABASE_URL)"]
    ELSE IF fault = "connect" THEN [ok |-> FALSE, err |-> "OperationalError"]
    ELSE [ok |-> TRUE, err |-> "none"]

\* create_tables (lines 22-98): the new set of tables and what the call did.
\* DDL is transactional: nothing exists until the commit of line 95.
create_tables(url, tabs, fault) ==
    LET conn == get_db_connection(url, fault) IN
    IF ~conn.ok
    THEN [tables |-> tabs,
          call |-> Call("create_tables", 0, FALSE, conn.err, TRUE, 0, 0)]
    ELSE IF fault \in {"execute", "commit"}
    THEN [tables |-> tabs,
          call |-> Call("create_tables", 0, FALSE, "OperationalError", TRUE, 1, 0)]
    ELSE [tables |-> tabs \cup SchemaTables,
          call |-> Call("create_tables", 0, FALSE, "none", FALSE, 1, 1)]

\* populate_teams (lines 101-154)
populate_teams(url, tabs, table, fault) ==
    LET conn == get_db_connection(url, fault) IN
    IF ~conn.ok
    THEN [nfl_teams |-> table,
          call |-> Call("populate_teams", 0, FALSE, conn.err, TRUE, 0, 0)]
    ELSE IF "nfl_teams" \notin tabs
    THEN [nfl_teams |-> table,
          call |-> Call("populate_teams", 0, FALSE, "UndefinedTable", TRUE, 1, 0)]
    ELSE IF fault \in {"execute", "commit"}
    THEN [nfl_teams |-> table,
          call |-> Call("populate_teams", 0, FALSE, "OperationalError", TRUE, 1, 0)]
    ELSE [nfl_teams |-> InsertTeams(table, teams),
          call |-> Call("populate_teams", 0, FALSE, "none", FALSE, 1, 1)]

\* An except clause for the errors of requests only
ExceptRequestsOnly(status_code, parsed, error, opened) ==
    Call("populate_games", status_code, parsed, error, error # "ConnectionError",
         opened, 0)

\* A status check that lets every status below 400 through
FailedOnClientOrServerError(response) == response.status_code >= 400

\* except Exception as e: print(...) (lines 236-237): the exception is
\* logged and populate_games returns; a connection opened before it stays open
Except(status_code, parsed, error, opened) ==
    Call("populate_games", status_code, parsed, error, FALSE, opened, 0)

\* if response.status_code != 200 (line 170)
Failed(response) == response.status_code # HTTP_OK

\* The statement of lines 219-229 on the open connection: the error it raises
ExecuteError(tabs, games, fault) ==
    IF "nfl_games" \notin tabs THEN "UndefinedTable"
    ELSE IF StatementError(games) # "none" THEN StatementError(games)
    ELSE IF fault = "execute" THEN "OperationalError"
    ELSE "none"

\* A connection in autocommit mode: the first tuple stays when the statement fails
StoreGamesAutocommit(url, tabs, table, games, fault, now) ==
    LET conn == get_db_connection(url, fault) IN
    IF ~conn.ok
    THEN [nfl_games |-> table, written |-> <<>>,
          call |-> Except(HTTP_OK, TRUE, conn.err, 0)]
    ELSE IF ExecuteError(tabs, games, fault) = "UndefinedTable"
    THEN [nfl_games |-> table, written |-> <<>>,
          call |-> Except(HTTP_OK, TRUE, "UndefinedTable", 1)]
    ELSE IF ExecuteError(tabs, games, fault) # "none" \/ fault = "commit"
    THEN [nfl_games |-> UpsertAll(table, <<Head(games)>>, now), written |-> <<>>,
          call |-> Except(HTTP_OK, TRUE, "OperationalError", 1)]
    ELSE [nfl_games |-> UpsertAll(table, games, now), written |-> games,
          call |-> Call("populate_games", HTTP_OK, TRUE, "none", FALSE, 1, 1)]

\* if games: ... (lines 215-234), inside the try of line 163.  `written` is
\* the batch the commit of line 230 made durable.
StoreGames(url, tabs, table, games, fault, now) ==
    LET conn == get_db_connection(url, fault) IN
    IF ~conn.ok
    THEN [nfl_games |-> table, written |-> <<>>,
          call |-> Except(HTTP_OK, TRUE, conn.err, 0)]
    ELSE IF ExecuteError(tabs, games, fault) # "none"
    THEN [nfl_games |-> table, written |-> <<>>,
          call |-> Except(HTTP_OK, TRUE, ExecuteError(tabs, games, fault), 1)]
    ELSE IF fault = "commit"
    THEN [nfl_games |-> table, written |-> <<>>,
          call |-> Except(HTTP_OK, TRUE, "OperationalError", 1)]
    ELSE [nfl_games |-> UpsertAll(table, games, now), written |-> games,
          call |-> Call("populate_games", HTTP_OK, TRUE, "none", FALSE, 1, 1)]

\* populate_games (lines 157-237)
populate_games(url, tabs, table, season, w, response, fault, now) ==
    IF response.net # "ok"
    THEN [nfl_games |-> table, written |-> <<>>,
          call |-> Except(0, FALSE, response.net, 0)]
    ELSE IF Failed(response)
    THEN [nfl_games |-> table, written |-> <<>>,
          call |-> Call("populate_games", response.status_code, FALSE, "none",
                        FALSE, 0, 0)]
    ELSE IF ~response.json
    THEN [nfl_games |-> table, written |-> <<>>,
          call |-> Except(HTTP_OK, TRUE, "JSONDecodeError", 0)]
    ELSE LET p == ParseEvents(response.events, season, w, <<>>) IN
         IF ~p.ok
         THEN [nfl_games |-> table, written |-> <<>>,
               call |-> Except(HTTP_OK, TRUE, p.err, 0)]
         ELSE IF p.games = <<>>
         THEN [nfl_games |-> table, written |-> <<>>,
               call |-> Call("populate_games", HTTP_OK, TRUE, "none", FALSE, 0, 0)]
         ELSE StoreGames(url, tabs, table, p.games, fault, now)

\* ----------------------------------------------------------------- history
\* The columns only the INSERT sets, and the columns the UPDATE sets too
Inserted(g) ==
    [season |-> g.season, week |-> g.week, game_date |-> g.game_date,
     home_team |-> g.home_team, away_team |-> g.away_team]

Updated(g, now) ==
    [home_score |-> g.home_score, away_score |-> g.away_score,
     status |-> g.status, updated_at |-> now]

\* `fetched` after the tuples of one committed batch
RECURSIVE Record(_, _, _)
Record(history, games, now) ==
    IF games = <<>> THEN history
    ELSE LET g == Head(games) IN
         IF IsNone(g.game_id) THEN Record(history, Tail(games), now)
         ELSE IF g.game_id[1] \in DOMAIN history
         THEN Record([history EXCEPT ![g.game_id[1]].latest = Updated(g, now)],
                     Tail(games), now)
         ELSE Record(history @@ (g.game_id[1] :>
                        [first |-> Inserted(g), latest |-> Updated(g, now)]),
                     Tail(games), now)


\* ------------------------------------------------------------------ inputs
Competitor(homeAway, team, score) ==
    [homeAway |-> homeAway, team |-> team, score |-> score]

Event(id, date, competitions, weeknum) ==
    [kind |-> "dict", id |-> id, date |-> date, competitions |-> competitions,
     weeknum |-> weeknum]

Sunday == <<"2025-09-07", "T", "17:00Z">>
Monday == <<"2025-09-15", "T", "00:15Z">>

\* A finished game: both sides flagged, both scores present
FinalGame ==
    <<[competitors |-> <<Competitor(Some("home"), Some("AAA"), Some(<<"1", "0">>)),
                         Competitor(Some("away"), Some("BBB"), Some(<<"7">>))>>,
       status |-> Some("final")]>>

\* A game to come: away side listed first, no scores, no status
ScheduledGame ==
    <<[competitors |-> <<Competitor(Some("away"), Some("AAA"), None),
                         Competitor(Some("home"), Some("CCC"), None)>>,
       status |-> None]>>

\* A competitor with no homeAway flag after one flagged away
UnflaggedGame ==
    <<[competitors |-> <<Competitor(Some("away"), Some("BBB"), Some(<<"7">>)),
                         Competitor(None, Some("CCC"), Some(<<"3">>))>>,
       status |-> Some("in")]>>

\* A score that is no integer
BadScoreGame ==
    <<[competitors |-> <<Competitor(Some("home"), Some("AAA"), Some(<<"1", "0">>)),
                         Competitor(Some("away"), Some("BBB"), Some(<<"x">>))>>,
       status |-> Some("final")]>>

\* Events with an id that put a tuple in the batch
IdentifiedEvents ==
    {Event(Some("401"), Some(Sunday), FinalGame, Some(2)),
     Event(Some("401"), Some(Monday), ScheduledGame, None),
     Event(Some("402"), Some(Sunday), UnflaggedGame, None)}

\* The same without an id
AnonymousEvents ==
    {Event(None, Some(Sunday), FinalGame, Some(2)),
     Event(None, Some(Monday), ScheduledGame, None)}

\* Events that put none: no competitions, a bad score, no date, not an object
OtherEvents ==
    {Event(Some("402"), Some(Sunday), <<>>, None),
     Event(Some("402"), Some(Sunday), BadScoreGame, None),
     Event(Some("402"), None, FinalGame, None),
     [Event(None, None, <<>>, None) EXCEPT !.kind = "str"]}

Events == IdentifiedEvents \cup AnonymousEvents \cup OtherEvents

ListsOf(events, n) == UNION {[1..k -> events] : k \in 0..n}

Response(net, status_code, json, events) ==
    [net |-> net, status_code |-> status_code, json |-> json, events |-> events]

\* requests.get raises; a status other than 200, with a body that would
\* parse; a body that is not JSON; a scoreboard
ResponsesOver(lists) ==
    {Response("ConnectionError", 0, FALSE, <<>>)}
    \cup {Response("ok", code, TRUE, <<Event(Some("401"), Some(Sunday), FinalGame, Some(2))>>) :
             code \in {204, 404}}
    \cup {Response("ok", code, FALSE, <<>>) : code \in {HTTP_OK, 500}}
    \cup {Response("ok", HTTP_OK, TRUE, events) : events \in lists}

\* (season, week) of a direct call
Arguments == {<<2025, Some(1)>>, <<2024, None>>}

Urls == {None, Some(""), Some("postgresql://neon")}

\* The faults that can change what the call does
FaultsOf(season, w, response) ==
    IF /\ response.net = "ok" /\ ~Failed(response) /\ response.json
       /\ \E p \in {ParseEvents(response.events, season, w, <<>>)} :
            p.ok /\ p.games # <<>>
    THEN Faults ELSE {"none"}

NoHistory == [id \in {} |-> None]

\* ------------------------------------------------------------------- steps
\* The database clock advances
Tick ==
    /\ clock < MaxClock
    /\ clock' = clock + 1
    /\ UNCHANGED <<database_url, tables, nfl_teams, nfl_games, pc, week, trace,
                   request, fetched, last>>

FreshDatabase ==
    /\ tables = {}
    /\ nfl_teams = EmptyBag
    /\ nfl_games = EmptyBag
    /\ fetched = NoHistory
    /\ clock = 0

\* ---- FetchSpec: create_tables and populate_games called directly, in any
\* order, any number of times, with any arguments
FetchResponses == ResponsesOver(ListsOf(IdentifiedEvents, MaxBatch))

FetchInit ==
    /\ database_url \in Urls
    /\ FreshDatabase
    /\ pc = "api" /\ week = 0 /\ trace = <<>>
    /\ request = None
    /\ last = NoCall

FetchCreateTables ==
    /\ pc = "api"
    /\ \E fault \in Faults :
         \E r \in {create_tables(database_url, tables, fault)} :
           /\ tables' = r.tables
           /\ last' = r.call
    /\ UNCHANGED <<database_url, nfl_teams, nfl_games, clock, pc, week, trace,
                   request, fetched>>

FetchPopulateGames ==
    /\ pc = "api"
    /\ \E a \in Arguments, response \in FetchResponses :
         \E fault \in FaultsOf(a[1], a[2], response) :
           \E r \in {populate_games(database_url, tables, nfl_games, a[1], a[2],
                                    response, fault, clock)} :
             /\ nfl_games' = r.nfl_games
             /\ fetched' = Record(fetched, r.written, clock)
             /\ last' = r.call
    /\ UNCHANGED <<database_url, tables, nfl_teams, clock, pc, week, trace, request>>

FetchNext == FetchCreateTables \/ FetchPopulateGames \/ Tick

FetchSpec == FetchInit /\ [][FetchNext]_vars

\* ---- Spec: main() (lines 239-260), run again after it has ended
\* range(a, b)
range(a, b) == [i \in 1..(b - a) |-> a + i - 1]

\* A loop that stops one week early
WeeksButLast == range(1, current_week)

\* for week in range(1, current_week + 1) (line 256)
Weeks == range(1, current_week + 1)

\* An exception that leaves the function ends the process
After(call, next) == IF call.raised THEN "crashed" ELSE next

DriverResponses ==
    ResponsesOver(ListsOf({Event(Some("401"), Some(Sunday), FinalGame, Some(2))}, MaxBatch))

Init ==
    /\ database_url \in Urls
    /\ FreshDatabase
    /\ pc = "create_tables" /\ week = 0 /\ trace = <<>>
    /\ request = None
    /\ last = NoCall

\* line 247
MainCreateTables ==
    /\ pc = "create_tables"
    /\ \E fault \in Faults :
         \E r \in {create_tables(database_url, tables, fault)} :
           /\ tables' = r.tables
           /\ last' = r.call
           /\ pc' = After(r.call, "populate_teams")
    /\ trace' = Append(trace, <<"create_tables", 0, 0>>)
    /\ UNCHANGED <<database_url, nfl_teams, nfl_games, clock, week, request, fetched>>

\* line 251; then the loop of line 256 starts
MainPopulateTeams ==
    /\ pc = "populate_teams"
    /\ \E fault \in Faults :
         \E r \in {populate_teams(database_url, tables, nfl_teams, fault)} :
           /\ nfl_teams' = r.nfl_teams
           /\ last' = r.call
           /\ pc' = After(r.call, "populate_games")
    /\ trace' = Append(trace, <<"populate_teams", 0, 0>>)
    /\ week' = 1
    /\ UNCHANGED <<database_url, tables, nfl_games, clock, request, fetched>>

\* lines 256-258: one iteration; `week` is the position in Weeks
MainPopulateGames ==
    /\ pc = "populate_games"
    /\ week <= Len(Weeks)
    /\ \E response \in DriverResponses :
         \E fault \in FaultsOf(SeasonOfMain, Some(Weeks[week]), response) :
           \E r \in {populate_games(database_url, tables, nfl_games, SeasonOfMain,
                                    Some(Weeks[week]), response, fault, clock)} :
             /\ nfl_games' = r.nfl_games
             /\ fetched' = Record(fetched, r.written, clock)
             /\ last' = r.call
             /\ pc' = After(r.call, "populate_games")
    /\ trace' = Append(trace, <<"populate_games", SeasonOfMain, Weeks[week]>>)
    /\ week' = week + 1
    /\ UNCHANGED <<database_url, tables, nfl_teams, clock, request>>

\* line 260: the loop is exhausted
MainCompleted ==
    /\ pc = "populate_games"
    /\ week > Len(Weeks)
    /\ pc' = "done"
    /\ UNCHANGED <<database_url, tables, nfl_teams, nfl_games, clock, week, trace,
                   request, fetched, last>>

\* The script is run again, against the same database
MainAgain ==
    /\ pc \in {"done", "crashed"}
    /\ pc' = "create_tables" /\ week' = 0 /\ trace' = <<>>
    /\ last' = NoCall
    /\ UNCHANGED <<database_url, tables, nfl_teams, nfl_games, clock, request, fetched>>

Main == MainCreateTables \/ MainPopulateTeams \/ MainPopulateGames \/ MainCompleted

Next == Main \/ MainAgain \/ Tick

Spec == Init /\ [][Next]_vars

\* Every call returns or raises: nothing blocks for ever
LiveSpec == Spec /\ WF_vars(Main)


\* ---- CallSpec: one call of populate_games, with any arguments and any
\* response, on a database an earlier run has left
CallResponses == ResponsesOver(ListsOf(Events, MaxEvents))

Requests ==
    {[season |-> a[1], week |-> a[2], response |-> response, fault |-> fault] :
        a \in Arguments, response \in CallResponses, fault \in Faults}

\* The tuples an earlier call can have stored: one event, any arguments
EarlierBatches ==
    {<<>>} \cup
    {<<GameOf(e, a[1], a[2]).game>> :
        e \in IdentifiedEvents \cup AnonymousEvents, a \in Arguments}

CallInit ==
    /\ database_url \in Urls
    /\ \/ /\ tables = {}
          /\ nfl_teams = EmptyBag
          /\ nfl_games = EmptyBag
          /\ fetched = NoHistory
       \/ /\ tables = SchemaTables
          /\ nfl_teams = InsertTeams(EmptyBag, teams)
          /\ ~IsNone(database_url) /\ database_url # Some("")
          /\ \E games \in EarlierBatches :
               /\ nfl_games = UpsertAll(EmptyBag, games, 0)
               /\ fetched = Record(NoHistory, games, 0)
    /\ clock = 1
    /\ pc = "call" /\ week = 0 /\ trace = <<>>
    /\ request \in Requests
    /\ request.fault \in FaultsOf(request.season, request.week, request.response)
    /\ last = NoCall

CallPopulateGames ==
    /\ pc = "call"
    /\ \E r \in {populate_games(database_url, tables, nfl_games, request.season,
                                request.week, request.response, request.fault, clock)} :
         /\ nfl_games' = r.nfl_games
         /\ fetched' = Record(fetched, r.written, clock)
         /\ last' = r.call
    /\ pc' = "returned"
    /\ UNCHANGED <<database_url, tables, nfl_teams, clock, week, trace, request>>

CallNext == CallPopulateGames

CallSpec == CallInit /\ [][CallNext]_vars


\* ================================================================== claims

\* C1. Upsert asymmetry: a stored game with an id always holds the season,
\* week, game_date, home_team and away_team of the first upsert of that id,
\* and the home_score, away_score, status and update time of the latest
\* upsert of that id, after any sequence of fetches.
C1_UpsertAsymmetry ==
    \A r \in Rows(nfl_games) :
        ~IsNone(r.game_id) =>
            /\ r.game_id[1] \in DOMAIN fetched
            /\ Inserted(r) = fetched[r.game_id[1]].first
            /\ Updated(r, r.updated_at) = fetched[r.game_id[1]].latest

\* Game 401 was first fetched in season 2025 as a final AAA-BBB game of
\* 7 September and fetched again later as scheduled, without scores
C1_Witness ==
    \E r \in Rows(nfl_games) :
        /\ r.game_id = Some("401")
        /\ r.season = 2025 /\ r.game_date = <<"2025-09-07">>
        /\ r.home_team = Some("AAA") /\ r.away_team = Some("BBB")
        /\ r.status = "scheduled" /\ r.home_score = Some(0)
        /\ r.updated_at = 1


\* ---- what the single call of CallSpec was given, and whether it succeeded
Given == request.response
Answered == Given.net = "ok" /\ Given.status_code = 200 /\ Given.json
Batch == ParseEvents(Given.events, request.season, request.week, <<>>)
DatabaseUnchanged == UNCHANGED <<tables, nfl_teams, nfl_games>>

\* C2. populate_games never lets an exception escape: whatever fails (the
\* GET, the JSON, the shape of an event, a score, the connection, the
\* upsert, the commit), the call returns normally, and a call that failed
\* leaves every table as it was, so earlier and later calls are unaffected.
C2_NoExceptionEscapes ==
    [][pc' = "returned" =>
          /\ ~last'.raised
          /\ last'.error # "none" => DatabaseUnchanged]_vars

\* The upsert or the commit failed on a database that already held a game
C2_Witness ==
    /\ pc = "returned"
    /\ last.error = "OperationalError" /\ last.opened = 1
    /\ nfl_games # EmptyBag

\* C3. A response whose status is not 200 writes nothing: every table is as
\* before, no connection is opened, the body is not parsed.
C3_NonSuccessWritesNothing ==
    [][(pc' = "returned" /\ Given.net = "ok" /\ Given.status_code # 200) =>
          /\ DatabaseUnchanged
          /\ last'.opened = 0
          /\ ~last'.parsed]_vars

\* A 204 with a body that would parse, on a database that already held a game
C3_Witness ==
    /\ pc = "returned"
    /\ last.status_code = 204 /\ Given.json /\ Given.events # <<>>
    /\ nfl_games # EmptyBag

\* C5. If DATABASE_URL is absent, an operation that needs a connection fails
\* with a configuration error that is not recovered: it leaves the function
\* as an exception.
C5_ConfigurationErrorHalts ==
    last.error = "ValueError(DATABASE_URL)" => last.raised

\* C6. nfl_games never holds two rows for the same game identifier, events
\* without an id included, and every identifier stored was fetched.
C6_GameIdentity ==
    \A r \in Rows(nfl_games) :
        /\ CopiesIn(r, nfl_games) = 1
        /\ \A q \in Rows(nfl_games) : q # r => q.game_id # r.game_id
        /\ ~IsNone(r.game_id) => r.game_id[1] \in DOMAIN fetched

\* C9. No partial batch: a call that fails leaves nfl_games as it was, and a
\* call that succeeds has upserted every tuple it parsed.
C9_NoPartialBatch ==
    [][pc' = "returned" =>
          /\ last'.error # "none" => nfl_games' = nfl_games
          /\ (last'.error = "none" /\ Answered) =>
                \A i \in 1..Len(Batch.games) :
                    \E r \in Rows(nfl_games') :
                        /\ r.game_id = Batch.games[i].game_id
                        /\ Updated(r, r.updated_at) = Updated(Batch.games[i], clock)]_vars

\* The second of two events had a score that is no integer, after a first
\* event that parsed
C9_Witness ==
    /\ pc = "returned"
    /\ Answered /\ Len(Given.events) = 2
    /\ Given.events[1] \in IdentifiedEvents
    /\ last.error = "ValueError(int)"


\* ---- what an event says, read off the event itself
Competitors(e) == e.competitions[1].competitors
Last(S) == CHOOSE i \in S : \A j \in S : j <= i
ScoreOr0(c) == IF IsNone(c.score) THEN 0 ELSE DecimalValue(c.score[1], 0)

\* The side taken from the last competitor whose index is in S
SideFrom(e, S) ==
    IF S = {} THEN [team |-> None, score |-> None]
    ELSE [team |-> Competitors(e)[Last(S)].team,
          score |-> Some(ScoreOr0(Competitors(e)[Last(S)]))]

FlaggedHome(e) == {i \in 1..Len(Competitors(e)) : Competitors(e)[i].homeAway = Some("home")}
FlaggedAway(e) == {i \in 1..Len(Competitors(e)) : Competitors(e)[i].homeAway = Some("away")}
NotFlaggedHome(e) == {i \in 1..Len(Competitors(e)) : Competitors(e)[i].homeAway # Some("home")}
StatusOf(e) == Get(e.competitions[1].status, "scheduled")

\* No row of the table before the call can conflict with the event
NewGame(e) == IsNone(e.id) \/ \A r \in Rows(nfl_games) : r.game_id # e.id

\* C8 as stated. After a successful response every event of the list has
\* its row: game_id from the event, home side from the competitor flagged
\* home, away side from the competitor flagged away, score 0 when absent,
\* status 'scheduled' when missing; and the call writes as many rows as the
\* response has distinct events.
C8_EveryEventOneRow ==
    [][(pc' = "returned" /\ Answered /\ last'.error = "none") =>
          /\ \A i \in 1..Len(Given.events) :
                \E r \in Rows(nfl_games') :
                    /\ r.game_id = Given.events[i].id
                    /\ Given.events[i].competitions # <<>> =>
                          /\ r.home_team = SideFrom(Given.events[i], FlaggedHome(Given.events[i])).team
                          /\ r.home_score = SideFrom(Given.events[i], FlaggedHome(Given.events[i])).score
                          /\ r.away_team = SideFrom(Given.events[i], FlaggedAway(Given.events[i])).team
                          /\ r.away_score = SideFrom(Given.events[i], FlaggedAway(Given.events[i])).score
                          /\ r.status = StatusOf(Given.events[i])
          /\ RowCount(nfl_games') - RowCount(nfl_games)
                = Cardinality({Given.events[i] : i \in 1..Len(Given.events)})]_vars

\* C8, amended. After a successful call every event WITH a competition has
\* its row: game_id from the event; scores from the last competitor flagged
\* home and the last competitor NOT flagged home (0 when it has no score,
\* NULL when there is no such competitor); status 'scheduled' when missing;
\* and, when the row is new, teams from the same competitors and the date
\* from the event.  The table grows by one row per such event whose id is
\* absent or was not stored before; an event without competitions adds none.
C8_EveryGameOneRow ==
    [][(pc' = "returned" /\ Answered /\ last'.error = "none") =>
          /\ \A i \in 1..Len(Given.events) :
                Given.events[i].competitions # <<>> =>
                \E r \in Rows(nfl_games') :
                    /\ r.game_id = Given.events[i].id
                    /\ r.home_score = SideFrom(Given.events[i], FlaggedHome(Given.events[i])).score
                    /\ r.away_score = SideFrom(Given.events[i], NotFlaggedHome(Given.events[i])).score
                    /\ r.status = StatusOf(Given.events[i])
                    /\ r.updated_at = clock
                    /\ NewGame(Given.events[i]) =>
                          /\ r.home_team = SideFrom(Given.events[i], FlaggedHome(Given.events[i])).team
                          /\ r.away_team = SideFrom(Given.events[i], NotFlaggedHome(Given.events[i])).team
                          /\ r.game_date = <<Given.events[i].date[1][1]>>
                          /\ r.season = request.season
          /\ RowCount(nfl_games') - RowCount(nfl_games)
                = Cardinality({i \in 1..Len(Given.events) :
                                  /\ Given.events[i].competitions # <<>>
                                  /\ NewGame(Given.events[i])})]_vars

\* Two events were written by one call: a game whose second competitor has
\* no flag, and a game without scores or status
C8_Witness ==
    /\ pc = "returned" /\ Answered /\ last.error = "none"
    /\ Len(Given.events) = 2
    /\ \E r \in Rows(nfl_games) :
          r.game_id = Some("402") /\ r.away_team = Some("CCC") /\ r.away_score = Some(3)
    /\ \E r \in Rows(nfl_games) :
          r.game_id = Some("401") /\ r.status = "scheduled" /\ r.home_score = Some(0)


\* ---- the driver
ExpectedCalls ==
    <<<<"create_tables", 0, 0>>, <<"populate_teams", 0, 0>>>>
    \o [w \in 1..11 |-> <<"populate_games", 2025, w>>]

IsPrefix(a, b) == Len(a) <= Len(b) /\ \A i \in 1..Len(a) : a[i] = b[i]

\* C4. A run of main calls create_tables, populate_teams and then
\* populate_games(2025, w) for w = 1..11 in that order, each once, whatever
\* the weeks before did; only create_tables and populate_teams can end the
\* run early; and once the loop is entered the run reaches its completion.
C4_DriverOrder ==
    /\ [](IsPrefix(trace, ExpectedCalls))
    /\ [](pc = "done" => trace = ExpectedCalls)
    /\ [](pc = "crashed" => last.op \in {"create_tables", "populate_teams"})
    /\ (pc = "populate_games") ~> (pc = "done")

\* The run completed although the fetch of the last week failed
C4_Witness ==
    /\ pc = "done"
    /\ trace = ExpectedCalls
    /\ last.op = "populate_games" /\ last.status_code = 404

\* C7. Once populate_teams has succeeded, however often, nfl_teams holds
\* exactly 32 rows: one row per team of the embedded list, with its name,
\* conference and division.
C7_SeedingIdempotent ==
    (nfl_teams # EmptyBag \/ (last.op = "populate_teams" /\ ~last.raised)) =>
        /\ BagCardinality(nfl_teams) = 32
        /\ \A i \in 1..Len(teams) : CopiesIn(TeamRow(teams[i]), nfl_teams) = 1

\* populate_teams has just succeeded in a run that followed a run which
\* had seeded the teams and stored a game
C7_Witness ==
    /\ pc = "populate_games" /\ week = 1
    /\ last.op = "populate_teams" /\ ~last.raised
    /\ nfl_games # EmptyBag

\* C10. Every function closes the connection it opened before it ends, by
\* returning or by raising.
C10_ConnectionsClosed == last.opened = last.closed


====
